---- MODULE Spec2Model ----
(***************************************************************************)
(* A model of ai_agent.py: one interactive run of main(), from the start   *)
(* URL prompt to the end of the run, with the helpers it calls             *)
(* (get_domain_from_url, the response parsing of ask_openai_for_plan,      *)
(* find_element, execute_plan).                                            *)
(*                                                                         *)
(* Python strings are tuples of one-character strings, so that strip(),    *)
(* lower(), startswith(), replace() and urlparse() are computed and not    *)
(* assumed.  The planner's response is a tuple of lines, each line a tuple *)
(* of JSON lexemes.                                                        *)
(***************************************************************************)
EXTENDS Integers, Sequences, FiniteSets, TLC

\* ------------------------------------------------------------------ bounds
\* Longest plan (number of array elements) the planner returns in the model.
MaxPlan == 2

\* ----------------------------------------------------------------- strings
S_yes == <<"y", "e", "s">>
S_http == <<"h", "t", "t", "p">>
S_https == <<"h", "t", "t", "p", "s">>
S_www == <<"w", "w", "w", ".">>
S_example_com == <<"e", "x", "a", "m", "p", "l", "e", ".", "c", "o", "m">>
S_localhost == <<"l", "o", "c", "a", "l", "h", "o", "s", "t">>
S_evil_test == <<"e", "v", "i", "l", ".", "t", "e", "s", "t">>
S_sep == <<":", "/", "/">>

\* str.lower() on the characters the model's inputs use.
LowerChar(c) ==
    CASE c = "Y" -> "y"
      [] c = "E" -> "e"
      [] c = "S" -> "s"
      [] c = "N" -> "n"
      [] c = "O" -> "o"
      [] OTHER -> c

Lower(s) == [k \in 1..Len(s) |-> LowerChar(s[k])]

IsSpace(c) == c \in {" ", "\t", "\n"}

RECURSIVE LStrip(_)
LStrip(s) == IF s # <<>> /\ IsSpace(Head(s)) THEN LStrip(Tail(s)) ELSE s

RECURSIVE RStrip(_)
RStrip(s) ==
    IF s # <<>> /\ IsSpace(s[Len(s)]) THEN RStrip(SubSeq(s, 1, Len(s) - 1)) ELSE s

\* str.strip()
Strip(s) == RStrip(LStrip(s))

\* s.startswith(p)
StartsWith(s, p) == Len(s) >= Len(p) /\ SubSeq(s, 1, Len(p)) = p

\* Index of the first character of s that is in the set cs, 0 when there is none.
RECURSIVE FindFirst(_, _, _)
FindFirst(s, cs, k) ==
    IF k > Len(s) THEN 0
    ELSE IF s[k] \in cs THEN k
    ELSE FindFirst(s, cs, k + 1)

\* s.replace("www.", ""): every non-overlapping occurrence, scanning left to
\* right, is removed; the result is not rescanned.
RECURSIVE ReplaceWww(_)
ReplaceWww(s) ==
    IF Len(s) < Len(S_www) THEN s
    ELSE IF StartsWith(s, S_www) THEN ReplaceWww(SubSeq(s, Len(S_www) + 1, Len(s)))
    ELSE <<Head(s)>> \o ReplaceWww(Tail(s))

\* ---------------------------------------------------------------- urlparse
Letters ==
    {"a", "b", "c", "d", "e", "f", "g", "h", "i", "j", "k", "l", "m", "n", "o", "p",
     "q", "r", "s", "t", "u", "v", "w", "x", "y", "z", "Y", "E", "S", "N", "O"}
Digits == {"0", "1", "2", "3", "4", "5", "6", "7", "8", "9"}
SchemeChars == Letters \cup Digits \cup {"+", "-", "."}

\* Position of the ':' that ends the scheme, 0 when the URL has no scheme.
SchemeEnd(url) ==
    LET i == FindFirst(url, {":"}, 1)
    IN IF i > 1 /\ url[1] \in Letters /\ \A k \in 1..(i - 1) : url[k] \in SchemeChars
       THEN i
       ELSE 0

UrlScheme(url) ==
    IF SchemeEnd(url) = 0 THEN <<>> ELSE Lower(SubSeq(url, 1, SchemeEnd(url) - 1))

\* urllib.parse.urlparse(url).netloc: what follows "//" after the scheme, up
\* to the first '/', '?' or '#'.
UrlNetloc(url) ==
    LET rest == SubSeq(url, SchemeEnd(url) + 1, Len(url))
        body == SubSeq(rest, 3, Len(rest))
        stop == FindFirst(body, {"/", "?", "#"}, 1)
    IN IF ~StartsWith(rest, <<"/", "/">>) THEN <<>>
       ELSE IF stop = 0 THEN body
       ELSE SubSeq(body, 1, stop - 1)

get_domain_from_url(url) == ReplaceWww(UrlNetloc(url))

\* validators.url(value): an http(s) URL with a host name made of dot-separated
\* non-empty labels and no white space anywhere.
HostChars == Letters \cup Digits \cup {"-", "."}

ValidHost(h) ==
    /\ h # <<>>
    /\ \A k \in 1..Len(h) : h[k] \in HostChars
    /\ h[1] # "." /\ h[Len(h)] # "."
    /\ \A k \in 1..(Len(h) - 1) : ~(h[k] = "." /\ h[k + 1] = ".")

validators_url(value) ==
    /\ UrlScheme(value) \in {S_http, S_https}
    /\ ValidHost(UrlNetloc(value))
    /\ \A k \in 1..Len(value) : ~IsSpace(value[k])

\* ------------------------------------------------------------- JSON values
\* What dict.get(key) returns for a key the record does not have.
NoneVal == "<None>"

\* A decoded JSON value that can stand as an element of the plan: a record
\* (Python dict, with the set of keys it has) or a scalar.
Rec(keys, action, by, selector, value) ==
    [type |-> "dict", keys |-> keys, action |-> action, by |-> by,
     selector |-> selector, value |-> value]

Scalar(type, content) ==
    [type |-> type, keys |-> {}, action |-> NoneVal, by |-> NoneVal,
     selector |-> NoneVal, value |-> content]

ClickGo == Rec({"action", "by", "selector"}, "click", "css", "#go", <<>>)
FillEmail ==
    Rec({"action", "by", "selector", "value"}, "fill", "name", "email", <<"a">>)
SubmitForm == Rec({"action", "by", "selector"}, "submit", "id", "f", <<>>)
WaitDefault == Rec({"action"}, "wait", NoneVal, NoneVal, <<>>)
NavAllowed ==
    Rec({"action", "value"}, "navigate", NoneVal, NoneVal,
        S_https \o S_sep \o S_www \o S_example_com \o <<"/", "a">>)
NavEvil ==
    Rec({"action", "value"}, "navigate", NoneVal, NoneVal, S_https \o S_sep \o S_evil_test)
\* https://exawww.mple.com
NavSpliced ==
    Rec({"action", "value"}, "navigate", NoneVal, NoneVal,
        S_https \o S_sep \o <<"e", "x", "a">> \o S_www \o <<"m", "p", "l", "e", ".", "c", "o", "m">>)
NavNoValue == Rec({"action"}, "navigate", NoneVal, NoneVal, <<>>)
Hover == Rec({"action", "by", "selector"}, "hover", "css", "#go", <<>>)
ClickBare == Rec({"action"}, "click", NoneVal, NoneVal, <<>>)
FillNoValue == Rec({"action", "by", "selector"}, "fill", "name", "email", <<>>)
\* A click with a selector kind that by_map does not have.
ClickByTag == Rec({"action", "by", "selector"}, "click", "tag", "button", <<>>)
\* //example.com: a network location without a scheme.
NavNoScheme ==
    Rec({"action", "value"}, "navigate", NoneVal, NoneVal, <<"/", "/">> \o S_example_com)
EmptyRec == Rec({}, NoneVal, NoneVal, NoneVal, <<>>)
Num5 == Scalar("num", <<"5">>)
Null == Scalar("null", <<>>)
EmptyStr == Scalar("str", <<>>)
StrGo == Scalar("str", <<"g", "o">>)

\* The elements the planner puts into arrays.
Items ==
    {ClickGo, FillEmail, SubmitForm, WaitDefault, NavAllowed, NavEvil, NavSpliced,
     NavNoValue, Hover, ClickBare, FillNoValue, Num5, ClickByTag, NavNoScheme}

\* The values the planner returns at the top level instead of an array.
TopLevelValues == {Num5, Null, EmptyStr, StrGo, EmptyRec, ClickGo}

\* step.get(key) and step.get("value", "")
Get(step, key) ==
    IF key \notin step.keys THEN NoneVal
    ELSE CASE key = "action" -> step.action
           [] key = "by" -> step.by
           [] key = "selector" -> step.selector

GetValue(step) == IF "value" \in step.keys THEN step.value ELSE <<>>

\* ------------------------------------------------------ the planner's text
\* A lexeme of the response text.
Lex(t) == [t |-> t, v |-> Null]
LexVal(item) == [t |-> "val", v |-> item]
LBracket == Lex("[")
RBracket == Lex("]")
Comma == Lex(",")
\* A line of three backquotes opens or closes a code fence.
Fence == Lex("fence")
Tag == Lex("json")
Prose == Lex("prose")

\* The lines of a JSON array written one element per line.
ArrayLines(elems) ==
    << <<LBracket>> >>
    \o [k \in 1..Len(elems) |->
          <<LexVal(elems[k])>> \o (IF k < Len(elems) THEN <<Comma>> ELSE <<>>)]
    \o << <<RBracket>> >>

\* A block of lines inside a code fence.
Fenced(lines) == << <<Fence, Tag>> >> \o lines \o << <<Fence>> >>

RECURSIVE SeqsUpTo(_, _)
SeqsUpTo(S, n) ==
    IF n = 0 THEN {<<>>}
    ELSE LET shorter == SeqsUpTo(S, n - 1)
         IN shorter \cup {Append(s, x) : s \in {t \in shorter : Len(t) = n - 1}, x \in S}

Plans == SeqsUpTo(Items, MaxPlan)

\* The response texts of the model: every array of at most MaxPlan elements;
\* the arrays of at most one element fenced as well; the non-array values;
\* prose; a cut-off array; nothing.
RawTexts ==
    {ArrayLines(p) : p \in Plans}
    \cup {Fenced(ArrayLines(p)) : p \in SeqsUpTo(Items, 1)}
    \cup {<< <<LexVal(v)>> >> : v \in TopLevelValues}
    \cup {<< <<Prose>>, <<LBracket, LexVal(ClickGo), RBracket>> >>,
          << <<LBracket, LexVal(ClickGo)>> >>,
          << <<Fence, LBracket, LexVal(ClickGo), RBracket, Fence>> >>,
          << <<>>, <<LBracket, LexVal(ClickGo), RBracket>>, <<>> >>,
          <<>>}

\* text.strip(): blank lines at both ends go.
RECURSIVE StripText(_)
StripText(lines) ==
    IF lines = <<>> THEN lines
    ELSE IF Head(lines) = <<>> THEN StripText(Tail(lines))
    ELSE IF lines[Len(lines)] = <<>> THEN StripText(SubSeq(lines, 1, Len(lines) - 1))
    ELSE lines

\* text.startswith(<three backquotes>)
StartsWithFence(lines) == lines # <<>> /\ Head(lines) # <<>> /\ Head(lines)[1] = Fence

\* A stripping that leaves the last line in.
DropFirstLineOnly(lines) == SubSeq(lines, 2, Len(lines))

\* "\n".join(text.splitlines()[1:-1])
DropFenceLines(lines) == SubSeq(lines, 2, Len(lines) - 1)

RECURSIVE Flatten(_)
Flatten(lines) == IF lines = <<>> THEN <<>> ELSE Head(lines) \o Flatten(Tail(lines))

\* The plan value main() holds: the type of the decoded value and what
\* iterating over it yields (the elements of a list, the keys of a dict,
\* the characters of a string).
PlanOf(type, elems) == [ptype |-> type, elems |-> elems]
NoPlan == PlanOf("none", <<>>)

TopLevel(v) ==
    CASE v.type = "dict" ->
           PlanOf("dict", [k \in 1..Cardinality(v.keys) |-> Scalar("str", <<"k">>)])
      [] v.type = "str" -> PlanOf("str", [k \in 1..Len(v.value) |-> Scalar("str", <<v.value[k]>>)])
      [] OTHER -> PlanOf(v.type, <<>>)

\* json.loads on the lexemes: one value, or '[' value (',' value)* ']', or
\* '[' ']'; anything else does not decode.
json_loads(toks) ==
    LET n == Len(toks)
        m == n - 2
    IN IF n = 1 /\ toks[1].t = "val"
       THEN [ok |-> TRUE, plan |-> TopLevel(toks[1].v)]
       ELSE IF /\ n >= 2 /\ toks[1] = LBracket /\ toks[n] = RBracket
               /\ (m = 0 \/ m % 2 = 1)
               /\ \A k \in 1..m : toks[k + 1].t = (IF k % 2 = 1 THEN "val" ELSE ",")
       THEN [ok |-> TRUE,
             plan |-> PlanOf("list", [k \in 1..((m + 1) \div 2) |-> toks[2 * k].v])]
       ELSE [ok |-> FALSE, plan |-> NoPlan]

\* Lines 101-110 of ask_openai_for_plan: strip, drop the fence lines of a
\* text that starts with a fence, decode.
ParseResponse(raw) ==
    LET text == StripText(raw)
        inner == IF StartsWithFence(text) THEN DropFenceLines(text) ELSE text
    IN json_loads(Flatten(inner))

\* ------------------------------------------------------------------ inputs
\* What the human types at the start URL prompt: Enter, "https://www.example.com ",
\* "https://www.evil.test", "https://exawww.mple.com", "evil.test",
\* "https://shop.www.evil.test".
StartInputs ==
    {<<>>,
     S_https \o S_sep \o <<"s", "h", "o", "p", ".">> \o S_www \o S_evil_test,
     S_https \o S_sep \o S_www \o S_example_com \o <<" ">>,
     S_https \o S_sep \o S_www \o S_evil_test,
     S_https \o S_sep \o <<"e", "x", "a">> \o S_www \o <<"m", "p", "l", "e", ".", "c", "o", "m">>,
     S_evil_test}

\* What the human types at a yes/no prompt: "yes", " YES ", "y", "no".
Answers == {S_yes, <<" ", "Y", "E", "S", " ">>, <<"y">>, <<"n", "o">>}

\* What the human types at the task prompt: Enter, a blank, "go".
TaskInputs == {<<>>, <<" ">>, <<"g", "o">>}

\* How the browser answers one step's calls: the lookup, the first call on
\* the element (or the page load), the second call on the element.
BrowserAnswers == [find : BOOLEAN, first : BOOLEAN, second : BOOLEAN]

\* ------------------------------------------------------------------- state
VARIABLES
    pc,               \* where main() stands
    start_url,        \* main: start_url
    domain,           \* main: domain
    ALLOWED_DOMAINS,  \* the module-level list
    driver,           \* "none", "open" or "quit"
    task,             \* main: task
    planner,          \* "idle", "raised" or "returned"
    raw,              \* the planner's response text
    plan,             \* main: plan
    allow,            \* what was typed at the session prompt, as typed
    approve,          \* what was typed at the approval prompt, as typed
    prompts,          \* how often each prompt was shown
    calls,            \* how often execute_plan was entered
    i,                \* execute_plan: the index of the step in hand
    results,          \* one entry per step attempted: "ok" or "error"
    issued,           \* every call made on the browser, in order
    success,          \* what execute_plan returned: "none", "true", "false"
    exit              \* why the run ended

vars ==
    <<pc, start_url, domain, ALLOWED_DOMAINS, driver, task, planner, raw, plan, allow,
      approve, prompts, calls, i, results, issued, success, exit>>

NotTyped == <<"-">>

Range(s) == {s[k] : k \in 1..Len(s)}

\* A call on the browser: the operation, the step it belongs to (0: main's
\* own page load) and the URL or selector it carries.
Call(op, step, arg) == [op |-> op, step |-> step, arg |-> arg, ok |-> TRUE]

\* The same call when the browser answers it with an exception.
Failed(call) == [call EXCEPT !.ok = FALSE]

Answered(call, ok) == IF ok THEN call ELSE Failed(call)

\* ALLOWED_DOMAINS as the module sets it.
ConfiguredDomains == <<S_example_com, S_localhost>>

Init ==
    /\ pc = "ask_url"
    /\ start_url = <<>>
    /\ domain = <<>>
    /\ ALLOWED_DOMAINS = ConfiguredDomains
    /\ driver = "none"
    /\ task = <<>>
    /\ planner = "idle"
    /\ raw = <<>>
    /\ plan = NoPlan
    /\ allow = NotTyped
    /\ approve = NotTyped
    /\ prompts = [allow |-> 0, approve |-> 0]
    /\ calls = 0
    /\ i = 0
    /\ results = <<>>
    /\ issued = <<>>
    /\ success = "none"
    /\ exit = "running"

\* ---------------------------------------------------------------- main()
DefaultStartUrl == S_https \o S_sep \o S_example_com

\* input(...).strip() and the default of lines 169-171
StartUrlOf(typed) == IF Strip(typed) = <<>> THEN DefaultStartUrl ELSE Strip(typed)

\* A comparison that takes any answer beginning with "y" for a yes.
SaidLoosely(typed) == Lower(Strip(typed)) # <<>> /\ Head(Lower(Strip(typed))) = "y"

\* input(...).strip().lower() of lines 182-183 and 232-233, compared to "yes"
SaidYes(typed) == Lower(Strip(typed)) = S_yes

\* Lines 190-200: the browser starts and loads the start URL.
OpenBrowser(url) ==
    /\ driver' = "open"
    /\ issued' = Append(issued, Call("get", 0, url))
    /\ pc' = "ask_task"

\* Lines 169-188 up to the session prompt, and lines 190-200 when no prompt
\* is needed.
EnterStartUrl ==
    /\ pc = "ask_url"
    /\ \E typed \in StartInputs :
         LET url == StartUrlOf(typed)
             dom == get_domain_from_url(url)
         IN /\ start_url' = url
            /\ IF ~validators_url(url)
               THEN /\ pc' = "done"
                    /\ exit' = "invalid_url"
                    /\ UNCHANGED <<domain, driver, issued, prompts>>
               ELSE /\ domain' = dom
                    /\ exit' = exit
                    /\ IF dom \in Range(ALLOWED_DOMAINS)
                       THEN OpenBrowser(url) /\ UNCHANGED prompts
                       ELSE /\ pc' = "ask_allow"
                            /\ prompts' = [prompts EXCEPT !.allow = @ + 1]
                            /\ UNCHANGED <<driver, issued>>
    /\ UNCHANGED <<ALLOWED_DOMAINS, task, planner, raw, plan, allow, approve, calls, i,
                   results, success>>

\* Lines 182-188, then lines 190-200.
AnswerAllow ==
    /\ pc = "ask_allow"
    /\ \E typed \in Answers :
         /\ allow' = typed
         /\ IF ~SaidYes(typed)
            THEN /\ pc' = "done"
                 /\ exit' = "domain_refused"
                 /\ UNCHANGED <<ALLOWED_DOMAINS, driver, issued>>
            ELSE /\ ALLOWED_DOMAINS' = Append(ALLOWED_DOMAINS, domain)
                 /\ exit' = exit
                 /\ OpenBrowser(start_url)
    /\ UNCHANGED <<start_url, domain, task, planner, raw, plan, approve, prompts, calls,
                   i, results, success>>

\* Lines 221-230: what the scan of the plan for navigate steps comes to.
\* "crash": step.get raises AttributeError on an element that is no dict;
\* "refuse": a navigate step with a non-empty value outside the list.
\* A scan that looks at one element and lets the rest through.
ScanOneOnly(elems, k, allowed) ==
    IF k > Len(elems) THEN "pass"
    ELSE IF elems[k].type # "dict" THEN "crash"
    ELSE IF /\ Get(elems[k], "action") = "navigate"
            /\ GetValue(elems[k]) # <<>>
            /\ get_domain_from_url(GetValue(elems[k])) \notin Range(allowed)
    THEN "refuse"
    ELSE "pass"

RECURSIVE ScanFrom(_, _, _)
ScanFrom(elems, k, allowed) ==
    IF k > Len(elems) THEN "pass"
    ELSE IF elems[k].type # "dict" THEN "crash"
    ELSE IF /\ Get(elems[k], "action") = "navigate"
            /\ GetValue(elems[k]) # <<>>
            /\ get_domain_from_url(GetValue(elems[k])) \notin Range(allowed)
    THEN "refuse"
    ELSE ScanFrom(elems, k + 1, allowed)

Iterable(p) == p.ptype \in {"list", "dict", "str"}

NavigationGate(p, allowed) ==
    IF ~Iterable(p) THEN "crash" ELSE ScanFrom(p.elems, 1, allowed)

\* An except clause that goes on with an empty plan.
PlannerFailureIgnored(reason) ==
    /\ plan' = PlanOf("list", <<>>)
    /\ pc' = "ask_approve"
    /\ exit' = exit
    /\ prompts' = [prompts EXCEPT !.approve = @ + 1]
    /\ UNCHANGED driver

\* Lines 211-214: the except clause around the planner call.
PlannerFailed(reason) ==
    /\ pc' = "done"
    /\ exit' = reason
    /\ driver' = "quit"
    /\ UNCHANGED <<plan, prompts>>

\* Lines 101-110 and 210-230: the planner's text is parsed, the plan is
\* scanned, and the approval prompt is shown when the scan passes.
PlanReceived(text) ==
    LET parsed == ParseResponse(text)
        gate == NavigationGate(parsed.plan, ALLOWED_DOMAINS)
    IN /\ planner' = "returned"
       /\ raw' = text
       /\ IF ~parsed.ok
          THEN PlannerFailed("parse_failed")
          ELSE /\ plan' = parsed.plan
               /\ CASE gate = "crash" ->
                         /\ pc' = "done"
                         /\ exit' = "crashed"
                         /\ UNCHANGED <<driver, prompts>>
                    [] gate = "refuse" ->
                         /\ pc' = "done"
                         /\ exit' = "navigation_refused"
                         /\ driver' = "quit"
                         /\ UNCHANGED prompts
                    [] OTHER ->
                         /\ pc' = "ask_approve"
                         /\ exit' = exit
                         /\ prompts' = [prompts EXCEPT !.approve = @ + 1]
                         /\ UNCHANGED driver

\* Lines 202-230: the task prompt, the planner call and its parsing, the
\* scan of the plan, up to the approval prompt.
EnterTask ==
    /\ pc = "ask_task"
    /\ \E typed \in TaskInputs :
         /\ task' = Strip(typed)
         /\ IF Strip(typed) = <<>>
            THEN /\ pc' = "done"
                 /\ exit' = "no_task"
                 /\ driver' = "quit"
                 /\ UNCHANGED <<planner, raw, plan, prompts>>
            ELSE \/ /\ planner' = "raised"
                    /\ UNCHANGED raw
                    /\ PlannerFailed("planner_failed")
                 \/ \E text \in RawTexts : PlanReceived(text)
    /\ UNCHANGED <<start_url, domain, ALLOWED_DOMAINS, allow, approve, calls, i, results,
                   issued, success>>

\* Lines 232-239: the approval prompt; on "yes" execute_plan is entered.
AnswerApprove ==
    /\ pc = "ask_approve"
    /\ \E typed \in Answers :
         /\ approve' = typed
         /\ IF ~SaidYes(typed)
            THEN /\ pc' = "done"
                 /\ exit' = "not_approved"
                 /\ driver' = "quit"
                 /\ UNCHANGED <<calls, i>>
            ELSE /\ pc' = "executing"
                 /\ exit' = exit
                 /\ calls' = calls + 1
                 /\ i' = 1
                 /\ UNCHANGED driver
    /\ UNCHANGED <<start_url, domain, ALLOWED_DOMAINS, task, planner, raw, plan, allow,
                   prompts, results, issued, success>>

\* ---------------------------------------------------------- execute_plan
\* The keys of by_map in find_element.
SelectorKinds == {"css", "xpath", "id", "name", "link_text"}

\* float(value) succeeds and time.sleep takes the result.
FloatOk(value) == value # <<>> /\ \A k \in 1..Len(value) : value[k] \in Digits

\* The body of the try block for one step: whether it ran through without
\* an exception, and the calls it made on the browser, in order.
Ran(ok, made) == [ok |-> ok, made |-> made]

\* A resolver that looks up whatever kind it is given.
find_element_any_kind(by, selector, k, b) ==
    [elem |-> b.find,
     made |-> <<Answered(Call("find_element", k, <<by, selector>>), b.find)>>]

\* Lines 112-122: whether an element comes back, and the lookup made for it.
find_element(by, selector, k, b) ==
    IF by \notin SelectorKinds THEN [elem |-> FALSE, made |-> <<>>]
    ELSE [elem |-> b.find,
          made |-> <<Answered(Call("find_element", k, <<by, selector>>), b.find)>>]

\* A navigate branch that issues whatever value it is given.
NavigateUnchecked(value, k, b) == Ran(b.first, <<Answered(Call("get", k, value), b.first)>>)

\* Lines 136-140: the navigate branch.
NavigateStep(value, k, b) ==
    IF ~validators_url(value) THEN Ran(FALSE, <<>>)
    ELSE Ran(b.first, <<Answered(Call("get", k, value), b.first)>>)

\* A submit branch without the fall-back.
SubmitOnly(k, b) == Ran(b.first, <<Answered(Call("submit", k, <<>>), b.first)>>)

\* Lines 148-153: the submit branch, on the element found.
SubmitElement(k, b) ==
    IF b.first THEN Ran(TRUE, <<Call("submit", k, <<>>)>>)
    ELSE Ran(b.second,
             <<Failed(Call("submit", k, <<>>)), Answered(Call("click", k, <<>>), b.second)>>)

\* Lines 143-147: the click and fill branches, on the element found.
ClickElement(k, b) == Ran(b.first, <<Answered(Call("click", k, <<>>), b.first)>>)

FillElement(value, k, b) ==
    IF ~b.first THEN Ran(FALSE, <<Failed(Call("clear", k, <<>>))>>)
    ELSE Ran(b.second,
             <<Call("clear", k, <<>>), Answered(Call("send_keys", k, value), b.second)>>)

\* Lines 132-156.
RunStep(step, k, b) ==
    LET action == Get(step, "action")
        value == GetValue(step)
        found == find_element(Get(step, "by"), Get(step, "selector"), k, b)
        acted == IF action = "click" THEN ClickElement(k, b)
                 ELSE IF action = "fill" THEN FillElement(value, k, b)
                 ELSE SubmitElement(k, b)
    IN CASE action = "wait" -> Ran(value = <<>> \/ FloatOk(value), <<>>)
         [] action = "navigate" -> NavigateStep(value, k, b)
         [] action \in {"click", "fill", "submit"} ->
              IF ~found.elem THEN Ran(FALSE, found.made)
              ELSE Ran(acted.ok, found.made \o acted.made)
         [] OTHER -> Ran(TRUE, <<>>)

\* Where execute_plan goes after step k: on to step k + 1, out with False,
\* or out by an exception that nothing in main() catches.
Continue(k) == [pc |-> "executing", i |-> k + 1, success |-> "none", exit |-> "running"]
ReturnFalse(k) == [pc |-> "finish", i |-> k, success |-> "false", exit |-> "running"]
Raise(k) == [pc |-> "done", i |-> k, success |-> "none", exit |-> "crashed"]

\* An executor that goes on to the next step whatever the step did.
AfterStepContinuing(ok, k) == Continue(k)

\* An executor without the try block: the step's exception leaves it.
AfterStepRaising(ok, k) == IF ok THEN Continue(k) ELSE Raise(k)

\* An executor that attempts a failed step again.
AfterStepRetrying(ok, k) ==
    IF ok THEN Continue(k)
    ELSE [pc |-> "executing", i |-> k, success |-> "none", exit |-> "running"]

\* Lines 157-160 and the loop of line 125.
AfterStep(ok, k) == IF ok THEN Continue(k) ELSE ReturnFalse(k)

\* Lines 125-161: one turn of the loop, or the return True after the last.
ExecStep ==
    /\ pc = "executing"
    /\ IF i > Len(plan.elems)
       THEN /\ pc' = "finish"
            /\ success' = "true"
            /\ UNCHANGED <<i, results, issued, exit>>
       ELSE IF plan.elems[i].type # "dict"
       THEN /\ pc' = Raise(i).pc
            /\ exit' = Raise(i).exit
            /\ UNCHANGED <<i, results, issued, success>>
       ELSE \E b \in BrowserAnswers :
              LET ran == RunStep(plan.elems[i], i, b)
                  then == AfterStep(ran.ok, i)
              IN /\ issued' = issued \o ran.made
                 /\ results' = Append(results, IF ran.ok THEN "ok" ELSE "error")
                 /\ pc' = then.pc
                 /\ i' = then.i
                 /\ success' = then.success
                 /\ exit' = then.exit
    /\ UNCHANGED <<start_url, domain, ALLOWED_DOMAINS, driver, task, planner, raw, plan,
                   allow, approve, prompts, calls>>

\* Lines 240-248: the report, the pause and driver.quit().
Finish ==
    /\ pc = "finish"
    /\ pc' = "done"
    /\ exit' = IF success = "true" THEN "executed" ELSE "stopped"
    /\ driver' = "quit"
    /\ UNCHANGED <<start_url, domain, ALLOWED_DOMAINS, task, planner, raw, plan, allow,
                   approve, prompts, calls, i, results, issued, success>>

Next ==
    \/ EnterStartUrl
    \/ AnswerAllow
    \/ EnterTask
    \/ AnswerApprove
    \/ ExecStep
    \/ Finish

Spec == Init /\ [][Next]_vars

\* ------------------------------------------------- execute_plan on its own
\* The records among the elements.
Records == {e \in Items : e.type = "dict"}

\* execute_plan entered with any list of at most MaxPlan records, whether or
\* not main() would have let the list through.
InitExec ==
    /\ pc = "executing"
    /\ start_url = DefaultStartUrl
    /\ domain = S_example_com
    /\ ALLOWED_DOMAINS = ConfiguredDomains
    /\ driver = "open"
    /\ task = <<"g", "o">>
    /\ planner = "returned"
    /\ \E p \in SeqsUpTo(Records, MaxPlan) : raw = ArrayLines(p) /\ plan = PlanOf("list", p)
    /\ allow = NotTyped
    /\ approve = S_yes
    /\ prompts = [allow |-> 0, approve |-> 1]
    /\ calls = 1
    /\ i = 1
    /\ results = <<>>
    /\ issued = <<Call("get", 0, DefaultStartUrl)>>
    /\ success = "none"
    /\ exit = "running"

NextExec == ExecStep

SpecExec == InitExec /\ [][NextExec]_vars

\* --------------------------------------------------- the parsing on its own
\* Longest response text, in lines.
MaxLines == 5

\* The lines a response text is made of.
LineKinds ==
    {<<>>, <<Fence>>, <<Fence, Tag>>, <<LBracket>>, <<RBracket>>, <<LexVal(ClickGo)>>,
     <<Prose>>}

\* The planner about to return any text of at most MaxLines such lines, on
\* the default start page.
InitParse ==
    /\ pc = "planning"
    /\ start_url = DefaultStartUrl
    /\ domain = S_example_com
    /\ ALLOWED_DOMAINS = ConfiguredDomains
    /\ driver = "open"
    /\ task = <<"g", "o">>
    /\ planner = "idle"
    /\ raw \in SeqsUpTo(LineKinds, MaxLines)
    /\ plan = NoPlan
    /\ allow = NotTyped
    /\ approve = NotTyped
    /\ prompts = [allow |-> 0, approve |-> 0]
    /\ calls = 0
    /\ i = 0
    /\ results = <<>>
    /\ issued = <<Call("get", 0, DefaultStartUrl)>>
    /\ success = "none"
    /\ exit = "running"

\* Lines 101-110 and 210-230 on the text in hand.
ReceiveResponse ==
    /\ pc = "planning"
    /\ PlanReceived(raw)
    /\ UNCHANGED <<start_url, domain, ALLOWED_DOMAINS, task, allow, approve, calls, i,
                   results, issued, success>>

NextParse == ReceiveResponse

SpecParse == InitParse /\ [][NextParse]_vars

\* ================================================================= claims
\* The domain of a URL as section 4.3 of the specification defines it: the
\* network location with one leading "www." dropped.
NormalizedDomain(url) ==
    LET n == UrlNetloc(url)
    IN IF StartsWith(n, S_www) THEN SubSeq(n, Len(S_www) + 1, Len(n)) ELSE n

\* The calls made on the browser for the steps of the plan.
StepCalls == {k \in 1..Len(issued) : issued[k].step >= 1}

IsRecord(e) == e.type = "dict"

\* The plan has a navigate step whose target domain is not in the list.
NavigatesOutside(elems, allowed) ==
    \E k \in 1..Len(elems) :
        /\ IsRecord(elems[k])
        /\ Get(elems[k], "action") = "navigate"
        /\ NormalizedDomain(GetValue(elems[k])) \notin Range(allowed)

\* C1: whole-plan veto.  A plan holding, at any position, a navigate step
\* whose normalized target domain is not in the allowlist (a navigate step
\* without a target included) never reaches execute_plan, and no call is
\* made on the browser for any of its steps.
C1_WholePlanVeto ==
    (planner = "returned" /\ NavigatesOutside(plan.elems, ALLOWED_DOMAINS))
        => (calls = 0 /\ StepCalls = {})

\* C2 as stated: execute_plan is entered, and calls are made for the steps,
\* only when what was typed at the approval prompt is exactly "yes".
C2_ExactTokenAsTyped ==
    (calls > 0 \/ StepCalls # {} \/ results # <<>>) => approve = S_yes

\* C2 as amended: execute_plan is entered only after an answer to the
\* approval prompt that is "yes" once surrounding white space is stripped and
\* the letters are lowered; on any other answer the run ends with
\* execute_plan never entered, no step attempted and no call made on the
\* browser beyond the page load that preceded the prompt; without the prompt
\* nothing is executed either.
C2_ApprovalGate ==
    /\ (calls > 0 \/ StepCalls # {} \/ results # <<>>)
           => (prompts.approve = 1 /\ Lower(Strip(approve)) = S_yes)
    /\ (approve # NotTyped /\ Lower(Strip(approve)) # S_yes)
           => /\ pc = "done" /\ exit = "not_approved"
              /\ calls = 0 /\ results = <<>>
              /\ issued = <<Call("get", 0, start_url)>>

\* A run in which a plan of steps was refused at the approval prompt by "y".
C2_Witness ==
    /\ pc = "done"
    /\ approve = <<"y">>
    /\ plan.ptype = "list" /\ Len(plan.elems) = MaxPlan
    /\ calls = 0

\* C3: fail-stop.  When step k is the first to fail, steps 1..k-1 have each
\* run through, step k is the one recorded as the error, execute_plan returns
\* False, and no call is ever made on the browser for a step after k;
\* execute_plan returns True only when every step of the plan ran through.
C3_FailStop ==
    /\ \A k \in 1..Len(results) : results[k] = "error" =>
           /\ k = Len(results)
           /\ \A j \in 1..(k - 1) : results[j] = "ok"
           /\ i = k
           /\ success = "false"
           /\ pc \in {"finish", "done"}
           /\ \A c \in StepCalls : issued[c].step <= k
    /\ success = "false" => (results # <<>> /\ results[Len(results)] = "error")
    /\ success = "true" =>
           /\ Len(results) = Len(plan.elems)
           /\ \A k \in 1..Len(results) : results[k] = "ok"
    /\ exit = "executed" => success = "true"
    /\ \A c \in StepCalls : issued[c].step <= Len(results)

\* A run of a two-step plan that ended at its first step: a click on an
\* element that was found and failed, with a click left unattempted.
C3_Witness ==
    /\ pc = "done"
    /\ exit = "stopped"
    /\ plan.elems = <<ClickGo, ClickGo>>
    /\ results = <<"error">>
    /\ Len(issued) = 3

\* The five action kinds of the plan contract.
ActionKinds == {"click", "fill", "submit", "navigate", "wait"}

\* The response decodes to an array.
DecodesToArray(text) == ParseResponse(text).ok /\ ParseResponse(text).plan.ptype = "list"

\* A record whose action is none of the five kinds, or that has no action.
UnknownKind(e) == IsRecord(e) /\ Get(e, "action") \notin ActionKinds

\* A record without the fields its action kind needs.
IllShaped(e) ==
    /\ IsRecord(e)
    /\ \/ /\ Get(e, "action") \in {"click", "fill", "submit"}
          /\ ~({"by", "selector"} \subseteq e.keys)
       \/ /\ Get(e, "action") \in {"fill", "navigate"}
          /\ "value" \notin e.keys

\* C4: a response that is not valid structured data, or whose top-level
\* value is not an array, fails to parse, the run aborts there, and no call
\* is made on the browser for any plan step.
C4_MalformedPlanRejected ==
    (planner = "returned" /\ ~DecodesToArray(raw))
        => (pc = "done" /\ exit = "parse_failed" /\ calls = 0 /\ StepCalls = {})

\* C5: a plan holding, at any position, a record of an unknown action kind
\* is rejected at validation: execute_plan is never entered, no step of it
\* is attempted, and the run does not end as a successful execution.
C5_UnknownActionRejected ==
    (planner = "returned" /\ DecodesToArray(raw)
     /\ \E k \in 1..Len(plan.elems) : UnknownKind(plan.elems[k]))
        => (calls = 0 /\ results = <<>> /\ StepCalls = {} /\ exit # "executed")

\* C6: a plan holding, at any position, a click/fill/submit record without a
\* selector kind or selector string, or a fill/navigate record without a
\* value, is rejected at validation, before any of its steps is attempted.
C6_InvalidShapeRejected ==
    (planner = "returned" /\ DecodesToArray(raw)
     /\ \E k \in 1..Len(plan.elems) : IllShaped(plan.elems[k]))
        => (calls = 0 /\ results = <<>> /\ StepCalls = {})

\* C7: get_domain_from_url returns the network location with a single leading
\* "www." removed and nothing else changed; so the session gate lets a start
\* URL through unasked only when that domain is an entry of the allowlist,
\* and the start URL and a navigate target get the same domain only when
\* their network locations agree up to a leading "www.".
C7_OnlyLeadingWwwDropped ==
    /\ (pc # "ask_url" /\ exit # "invalid_url") => domain = NormalizedDomain(start_url)
    /\ (driver # "none" /\ prompts.allow = 0)
           => NormalizedDomain(start_url) \in Range(ConfiguredDomains)
    /\ \A k \in 1..Len(plan.elems) :
           (/\ IsRecord(plan.elems[k])
            /\ exit # "invalid_url"
            /\ get_domain_from_url(GetValue(plan.elems[k])) = get_domain_from_url(start_url))
               => NormalizedDomain(GetValue(plan.elems[k])) = NormalizedDomain(start_url)

\* C8: session entry gate.  The browser is opened on the start URL only if
\* the start URL's domain was in the allowlist already, or the human was
\* asked once and said yes, and then exactly that domain was added; on any
\* other answer the run ends with no browser, no planner call and the
\* allowlist as it was.
C8_SessionEntryGate ==
    /\ driver # "none" =>
           \/ /\ NormalizedDomain(start_url) \in Range(ConfiguredDomains)
              /\ prompts.allow = 0
              /\ ALLOWED_DOMAINS = ConfiguredDomains
           \/ /\ prompts.allow = 1
              /\ Lower(Strip(allow)) = S_yes
              /\ ALLOWED_DOMAINS = Append(ConfiguredDomains, NormalizedDomain(start_url))
    /\ (allow # NotTyped /\ Lower(Strip(allow)) # S_yes) =>
           /\ pc = "done"
           /\ driver = "none" /\ issued = <<>>
           /\ planner = "idle"
           /\ ALLOWED_DOMAINS = ConfiguredDomains

\* C9: gate ordering.  For a plan with a navigate step to a domain outside
\* the allowlist the approval prompt is never shown, and no navigation to
\* that target is ever issued.
C9_GateBeforeApproval ==
    \A k \in 1..Len(plan.elems) :
        (/\ planner = "returned"
         /\ IsRecord(plan.elems[k])
         /\ Get(plan.elems[k], "action") = "navigate"
         /\ GetValue(plan.elems[k]) # <<>>
         /\ NormalizedDomain(GetValue(plan.elems[k])) \notin Range(ALLOWED_DOMAINS))
            => /\ prompts.approve = 0
               /\ \A c \in StepCalls :
                      ~(issued[c].op = "get" /\ issued[c].arg = GetValue(plan.elems[k]))

\* C10: validation precedes every gate.  For a response that fails
\* validation (no structured array, an unknown action kind, a record short
\* of its required fields) the run ends before the navigation gate and the
\* approval prompt: the human is never asked to approve it.
C10_ValidationBeforeGates ==
    (/\ planner = "returned"
     /\ \/ ~DecodesToArray(raw)
        \/ \E k \in 1..Len(plan.elems) :
               UnknownKind(plan.elems[k]) \/ IllShaped(plan.elems[k]))
        => (prompts.approve = 0 /\ exit # "navigation_refused")

\* C11: execute_plan never raises past its own boundary.  Handed any list of
\* records, and whatever the browser answers, it ends by returning True or
\* False and never by an exception; a browser call that fails in a step
\* (other than a submit made good by the fall-back click) makes that step
\* the recorded error and the return value False; while it runs, the step in
\* hand is the one after the last recorded, so the loop cannot go on for
\* ever.
C11_NeverRaises ==
    /\ exit # "crashed"
    /\ pc # "executing" => success \in {"true", "false"}
    /\ pc = "executing" => (i = Len(results) + 1 /\ i <= Len(plan.elems) + 1)
    /\ \A c \in StepCalls :
           (~issued[c].ok /\ ~(issued[c].op = "submit" /\ c < Len(issued)
                               /\ issued[c + 1].op = "click" /\ issued[c + 1].ok))
               => /\ results[issued[c].step] = "error"
                  /\ success = "false"

\* execute_plan has returned False from a list whose second record has
\* neither selector kind nor selector, after a submit made good by a click.
C11_Witness ==
    /\ pc = "finish"
    /\ success = "false"
    /\ plan.elems = <<SubmitForm, ClickBare>>
    /\ results = <<"ok", "error">>
    /\ Len(issued) = 4

\* C12: in every run in which the browser was opened, however the run ends,
\* the browser session is closed once before the run ends, and no call is
\* made on the browser after it is closed.
C12_BrowserClosedAtEnd ==
    /\ (pc = "done" /\ issued # <<>>) => driver = "quit"
    /\ driver = "quit" => pc = "done"

\* The calls made on the browser for step k, in order.
CallsOf(k) == SelectSeq(issued, LAMBDA c : c.step = k)

\* Step k was the last one attempted and execute_plan returned False on it.
HaltedAt(k) ==
    /\ results[k] = "error"
    /\ k = Len(results)
    /\ success = "false"
    /\ pc # "executing"

\* C13: submit step.  Once the element is resolved, submit is invoked on it;
\* when submit succeeds, click is not invoked and the step succeeds; when
\* submit fails, click is invoked exactly once and the step succeeds exactly
\* when that click succeeds; when the click fails too, the step is the
\* failure and the plan halts.
C13_SubmitFallback ==
    \A k \in 1..Len(results) :
        LET cs == CallsOf(k)
        IN (Get(plan.elems[k], "action") = "submit" /\ cs # <<>> /\ cs[1].ok) =>
               /\ cs[1].op = "find_element"
               /\ Len(cs) >= 2 /\ cs[2].op = "submit"
               /\ cs[2].ok => (Len(cs) = 2 /\ results[k] = "ok")
               /\ ~cs[2].ok =>
                      /\ Len(cs) = 3 /\ cs[3].op = "click"
                      /\ results[k] = "ok" <=> cs[3].ok
                      /\ ~cs[3].ok => HaltedAt(k)

\* A submit step whose submit and fall-back click both failed, with a step
\* left unattempted after it.
C13_Witness ==
    /\ pc = "finish"
    /\ plan.elems = <<SubmitForm, ClickGo>>
    /\ results = <<"error">>
    /\ Len(issued) = 4
    /\ issued[3].op = "submit" /\ issued[4].op = "click"

\* C14: navigate step.  The URL is validated again right before it is issued:
\* for a navigate step whose value is no well-formed absolute URL (an empty
\* or missing value included) no navigation and no other call is made on the
\* browser, the step is the failure and the plan halts; every navigation
\* that is issued carries a well-formed URL.
C14_NavigateRevalidated ==
    /\ \A k \in 1..Len(results) :
           (/\ Get(plan.elems[k], "action") = "navigate"
            /\ ~validators_url(GetValue(plan.elems[k])))
               => (CallsOf(k) = <<>> /\ HaltedAt(k))
    /\ \A c \in StepCalls : issued[c].op = "get" => validators_url(issued[c].arg)

\* A navigate step to //example.com, which has no scheme, failed without a
\* call on the browser, with a click left unattempted after it.
C14_Witness ==
    /\ pc = "finish"
    /\ plan.elems = <<NavNoScheme, ClickGo>>
    /\ results = <<"error">>
    /\ StepCalls = {}

\* C15: selector resolution fails fast.  For a click, fill or submit step
\* whose selector kind is none of css, xpath, id, name, link_text, no lookup
\* and no click, clear, type or submit is made on the browser, the step is
\* the failure and the plan halts.
C15_UnsupportedKindFailsFast ==
    \A k \in 1..Len(results) :
        (/\ Get(plan.elems[k], "action") \in {"click", "fill", "submit"}
         /\ Get(plan.elems[k], "by") \notin {"css", "xpath", "id", "name", "link_text"})
            => (CallsOf(k) = <<>> /\ HaltedAt(k))

\* A click by "tag" failed without a call on the browser, with a click left
\* unattempted after it.
C15_Witness ==
    /\ pc = "finish"
    /\ plan.elems = <<ClickByTag, ClickGo>>
    /\ results = <<"error">>
    /\ StepCalls = {}

\* C16: planner failure.  When the planner call raises or its response does
\* not decode, the run ends there with no plan: the approval prompt is not
\* shown, execute_plan is not entered, no step is attempted, no call is made
\* on the browser for a step, and the allowlist is as the session gate left
\* it.
C16_PlannerFailureAborts ==
    (planner = "raised" \/ (planner = "returned" /\ ~ParseResponse(raw).ok))
        => /\ pc = "done"
           /\ plan = NoPlan
           /\ prompts.approve = 0
           /\ calls = 0 /\ results = <<>> /\ StepCalls = {}
           /\ ALLOWED_DOMAINS =
                  IF allow = NotTyped THEN ConfiguredDomains
                  ELSE Append(ConfiguredDomains, domain)

\* A run that ended on an undecodable response after the start domain had
\* been added for the session.
C16_Witness ==
    /\ pc = "done"
    /\ planner = "returned"
    /\ exit = "parse_failed"
    /\ Len(ALLOWED_DOMAINS) = 3

\* C17: strict order, no retries.  Steps are attempted in increasing index
\* order, one at a time; a step is started only when every step before it
\* ran through; no step is attempted twice and none of its calls on the
\* browser is made twice; execute_plan is entered at most once per run.
C17_StrictOrderNoRetry ==
    /\ calls <= 1
    /\ Len(results) <= Len(plan.elems)
    /\ pc = "executing" => i = Len(results) + 1
    /\ \A k \in 1..(Len(results) - 1) : results[k] = "ok"
    /\ \A c \in StepCalls : issued[c].step <= Len(results)
    /\ \A c, d \in 1..Len(issued) :
           c < d => /\ issued[c].step <= issued[d].step
                    /\ (issued[c].step = issued[d].step /\ issued[c].step >= 1)
                           => issued[c].op # issued[d].op

\* A run that executed a click and then a fill, each once, and reported
\* success.
C17_Witness ==
    /\ pc = "done"
    /\ exit = "executed"
    /\ plan.elems = <<ClickGo, FillEmail>>
    /\ Len(issued) = 6

C19_NavigationsAllowlisted ==
    /\ \A c \in StepCalls :
           issued[c].op = "get" => get_domain_from_url(issued[c].arg) \in Range(ALLOWED_DOMAINS)
    /\ pc \in {"ask_approve", "executing", "finish"} =>
           /\ plan = ParseResponse(raw).plan
           /\ ALLOWED_DOMAINS =
                  IF allow = NotTyped THEN ConfiguredDomains
                  ELSE Append(ConfiguredDomains, domain)

\* A run that navigated, as its second step, to https://evil.test after
\* evil.test had been added for the session.
C19_Witness ==
    /\ pc = "done"
    /\ plan.elems = <<ClickGo, NavEvil>>
    /\ \E c \in StepCalls : issued[c].op = "get" /\ issued[c].arg = GetValue(NavEvil)

\* C20: the allowlist only grows, and only by the human's decision: it is
\* the configured list, or, after a yes at the session prompt, the
\* configured list with exactly the start URL's normalized domain appended;
\* nothing else changes it.
C20_AllowlistGrowsByDecisionOnly ==
    \/ ALLOWED_DOMAINS = ConfiguredDomains
    \/ /\ prompts.allow = 1
       /\ Lower(Strip(allow)) = S_yes
       /\ ALLOWED_DOMAINS = Append(ConfiguredDomains, NormalizedDomain(start_url))

====
